---- MODULE Spec2Model ----
(***************************************************************************)
(* A model of ComponentRope (src/src/component_rope.rs): a rope whose      *)
(* nodes are either leaves holding a String or internal nodes holding two  *)
(* boxed children, with the split/join rule `adjust` applied after every   *)
(* mutation.                                                               *)
(*                                                                         *)
(* Text.  A Rust String is a sequence of bytes that is valid UTF-8.  A     *)
(* byte is modelled as an integer: a value >= 0 is a byte that starts a    *)
(* character (an ASCII byte or the lead byte of a multi-byte character), a *)
(* value < 0 is a continuation byte.  This is the test that                *)
(* str::is_char_boundary makes on the byte ((b as i8) >= -0x40), and it is *)
(* what decides whether a slice &s[a..b] or s.split_at(i) panics.          *)
(*                                                                         *)
(* Option<T> is modelled as a sequence of length 0 (None) or 1 (Some(x)).  *)
(*                                                                         *)
(* A call that panics unwinds: the fields assigned before the panic keep   *)
(* their new values, the others keep the old ones.  Every operation below  *)
(* returns the node as the unwinding leaves it together with ok = FALSE.   *)
(***************************************************************************)
EXTENDS Integers, Sequences, FiniteSets, TLC

SPLIT_LENGTH == 1000
JOIN_LENGTH == 500
\* REBALANCE_RATIO = 1.2 as the fraction RATIO_NUM / RATIO_DEN
RATIO_NUM == 6
RATIO_DEN == 5

----------------------------------------------------------------------------
(* Option<T> *)
None == <<>>
Some(x) == <<x>>
IsSome(o) == Len(o) = 1
IsNone(o) == Len(o) = 0

(* The outcome of a call: the node afterwards and whether the call returned *)
Ok(n) == [rope |-> n, ok |-> TRUE]
Panic(n) == [rope |-> n, ok |-> FALSE]

----------------------------------------------------------------------------
(* str: char boundaries and slicing *)

\* str::is_char_boundary(i): 0 and len are boundaries, an index past the end
\* is not, and inside the string the byte at i must not be a continuation byte
is_char_boundary(s, i) ==
    \/ i = 0
    \/ i = Len(s)
    \/ (i > 0 /\ i < Len(s) /\ s[i + 1] >= 0)

\* &s[a..b] returns (does not panic) iff a <= b <= len and both are boundaries
SliceOk(s, a, b) ==
    /\ a <= b
    /\ b <= Len(s)
    /\ is_char_boundary(s, a)
    /\ is_char_boundary(s, b)

\* the bytes of &s[a..b] (0-based, half-open)
Slice(s, a, b) == SubSeq(s, a + 1, b)

----------------------------------------------------------------------------
(* impl fmt::Display: the flattened text of a node *)

RECURSIVE fmt_panics(_)
\* one of the expect("Non-leaf node must have left/right child") of fmt fails
fmt_panics(self) ==
    IF IsSome(self.value) THEN FALSE
    ELSE \/ IsNone(self.left)
         \/ IsNone(self.right)
         \/ fmt_panics(self.left[1])
         \/ fmt_panics(self.right[1])

RECURSIVE to_string(_)
to_string(self) ==
    IF IsSome(self.value) THEN self.value[1]
    ELSE to_string(self.left[1]) \o to_string(self.right[1])

----------------------------------------------------------------------------
(* new and adjust *)

RECURSIVE adjust(_)

\* a join threshold that is taken at half its value
needs_join_halved(self) == 2 * self.length < JOIN_LENGTH

\* a join threshold that lies above the split threshold
needs_join_above_split(self) == self.length < 2 * SPLIT_LENGTH

\* self.length < Self::JOIN_LENGTH
needs_join(self) == self.length < JOIN_LENGTH

\* a join that concatenates the children in the wrong order
join_swapped(self) ==
    [self EXCEPT !.value = Some(to_string(self.right[1])
                                \o to_string(self.left[1])),
                 !.left = None,
                 !.right = None]

\* a join that keeps the children it has flattened
join_keeps_children(self) ==
    [self EXCEPT !.value = Some(to_string(self.left[1])
                                \o to_string(self.right[1]))]

\* the join: the children's texts become the leaf text, the children are
\* dropped; the length stays
join(self) ==
    [self EXCEPT !.value = Some(to_string(self.left[1])
                                \o to_string(self.right[1])),
                 !.left = None,
                 !.right = None]

\* a split point taken at a third of the length
third(length) == length \div 3

\* the split point of a leaf: the integer midpoint of its length
midpoint(length) == length \div 2

new(str) ==
    adjust([value |-> Some(str), left |-> None, right |-> None,
            length |-> Len(str)])

adjust(self) ==
    IF IsSome(self.value) THEN
        IF self.length > SPLIT_LENGTH THEN
            LET value == self.value[1]
                divide == midpoint(self.length)
            IN  IF ~(divide <= Len(value) /\ is_char_boundary(value, divide))
                THEN Panic(self)                       \* split_at panics
                ELSE
                  LET l == new(Slice(value, 0, divide)) IN
                  IF ~l.ok THEN Panic(self)
                  ELSE
                    LET r == new(Slice(value, divide, Len(value))) IN
                    IF ~r.ok
                    THEN Panic([self EXCEPT !.left = Some(l.rope)])
                    ELSE Ok([self EXCEPT !.left = Some(l.rope),
                                         !.right = Some(r.rope),
                                         !.value = None])
        ELSE Ok(self)
    ELSE IF needs_join(self) THEN
        IF IsSome(self.left) /\ IsSome(self.right) THEN
            IF fmt_panics(self.left[1]) \/ fmt_panics(self.right[1])
            THEN Panic(self)
            ELSE Ok(join(self))
        ELSE Ok(self)
    ELSE Ok(self)

----------------------------------------------------------------------------
(* insert *)

\* a frame that returns without calling adjust
FinishWithoutAdjust(self) == Ok(self)

\* what `self.adjust()` at the end of a frame makes of the frame's node
Finish(self) == adjust(self)

\* a position at the boundary routed to the left child
goes_left_inclusive(position, left_length) == position <= left_length

\* position < left_length: the insert goes to the left child
goes_left(position, left_length) == position < left_length

\* a parent that keeps its length when a child's length has changed
children_length_stale(self, left, right) == self.length

\* self.length = left.length + right.length, from the children after the call
children_length(self, left, right) == left.length + right.length

RECURSIVE insert(_, _, _)
insert(self, position, value) ==
    IF position > self.length THEN Panic(self)
    ELSE IF IsSome(self.value) THEN
        LET existing_value == self.value[1] IN
        IF ~(SliceOk(existing_value, 0, position)
             /\ SliceOk(existing_value, position, Len(existing_value)))
        THEN Panic(self)
        ELSE
          LET new_value == Slice(existing_value, 0, position) \o value
                           \o Slice(existing_value, position, Len(existing_value))
          IN Finish([self EXCEPT !.value = Some(new_value),
                                 !.length = Len(new_value)])
    ELSE IF IsNone(self.left) \/ IsNone(self.right) THEN Panic(self)
    ELSE
      LET left_length == self.left[1].length IN
      IF goes_left(position, left_length) THEN
          LET l == insert(self.left[1], position, value) IN
          IF ~l.ok THEN Panic([self EXCEPT !.left = Some(l.rope)])
          ELSE Finish([self EXCEPT
                        !.left = Some(l.rope),
                        !.length = children_length(self, l.rope, self.right[1])])
      ELSE
          LET r == insert(self.right[1], position - left_length, value) IN
          IF ~r.ok THEN Panic([self EXCEPT !.right = Some(r.rope)])
          ELSE Finish([self EXCEPT
                        !.right = Some(r.rope),
                        !.length = children_length(self, self.left[1], r.rope)])

----------------------------------------------------------------------------
(* remove *)

Min(a, b) == IF a < b THEN a ELSE b
Max(a, b) == IF a > b THEN a ELSE b
\* usize::saturating_sub
saturating_sub(a, b) == IF a > b THEN a - b ELSE 0

RECURSIVE remove(_, _, _)
remove(self, start, end) ==
    IF start > self.length \/ end > self.length \/ start > end THEN Panic(self)
    ELSE IF IsSome(self.value) THEN
        LET value == self.value[1] IN
        IF ~(SliceOk(value, 0, start) /\ SliceOk(value, end, Len(value)))
        THEN Panic(self)
        ELSE
          LET new_value == Slice(value, 0, start) \o Slice(value, end, Len(value))
          IN Finish([self EXCEPT !.value = Some(new_value),
                                 !.length = Len(new_value)])
    ELSE IF IsNone(self.left) \/ IsNone(self.right) THEN Panic(self)
    ELSE
      LET left == self.left[1]
          right == self.right[1]
          left_length == left.length
          left_start == Min(start, left_length)
          left_end == Min(end, left_length)
          right_start == Min(saturating_sub(start, left_length), right.length)
          right_end == Min(saturating_sub(end, left_length), right.length)
          l == IF left_start < left_length
               THEN remove(left, left_start, left_end)
               ELSE Ok(left)
      IN  IF ~l.ok THEN Panic([self EXCEPT !.left = Some(l.rope)])
          ELSE
            LET r == IF right_end > 0
                     THEN remove(right, right_start, right_end)
                     ELSE Ok(right)
            IN  IF ~r.ok
                THEN Panic([self EXCEPT !.left = Some(l.rope),
                                        !.right = Some(r.rope)])
                ELSE Finish([self EXCEPT
                              !.left = Some(l.rope),
                              !.right = Some(r.rope),
                              !.length = children_length(self, l.rope, r.rope)])

----------------------------------------------------------------------------
(* rebuild and rebalance *)

rebuild(self) ==
    IF IsNone(self.value) THEN
        \* left.take().expect(..): the field is emptied, then the expect is made
        IF IsNone(self.left) THEN Panic(self)
        ELSE IF IsNone(self.right) THEN Panic([self EXCEPT !.left = None])
        ELSE IF fmt_panics(self.left[1]) \/ fmt_panics(self.right[1])
        THEN Panic([self EXCEPT !.left = None, !.right = None])
        ELSE adjust([self EXCEPT
                       !.value = Some(to_string(self.left[1])
                                      \o to_string(self.right[1])),
                       !.left = None,
                       !.right = None])
    ELSE Ok(self)

\* the quotient taken in usize, without the casts to f64
ratio_exceeds_integer(a, b) ==
    IF b = 0 THEN a > 0
    ELSE RATIO_DEN * (a \div b) > RATIO_NUM

\* (a as f64) / (b as f64) > REBALANCE_RATIO.  x / 0.0 is +inf for x > 0 and
\* NaN for x = 0, and NaN > 1.2 is false.  For b > 0 and lengths far below
\* 2^52 the rounded quotient exceeds the double 1.2 exactly when a/b > 6/5.
ratio_exceeds(a, b) ==
    IF b = 0 THEN a > 0
    ELSE RATIO_DEN * a > RATIO_NUM * b

RECURSIVE rebalance(_)
rebalance(self) ==
    IF IsNone(self.value) THEN
        IF IsNone(self.left) \/ IsNone(self.right) THEN Panic(self)
        ELSE
          LET left_len == self.left[1].length
              right_len == self.right[1].length
          IN  IF ratio_exceeds(left_len, right_len)
                 \/ ratio_exceeds(right_len, left_len)
              THEN rebuild(self)
              ELSE
                LET l == rebalance(self.left[1]) IN
                IF ~l.ok THEN Panic([self EXCEPT !.left = Some(l.rope)])
                ELSE
                  LET r == rebalance(self.right[1]) IN
                  IF ~r.ok THEN Panic([self EXCEPT !.left = Some(l.rope),
                                                   !.right = Some(r.rope)])
                  ELSE Ok([self EXCEPT !.left = Some(l.rope),
                                       !.right = Some(r.rope)])
    ELSE Ok(self)

----------------------------------------------------------------------------
(* substring, substr: the queries.  They return a text or panic. *)

Text(t) == [text |-> t, ok |-> TRUE]
NoText == [text |-> <<>>, ok |-> FALSE]

\* isize of a 32-bit target (the widest integers TLC computes with)
ISIZE_MAX == 2147483647
ISIZE_MIN == -ISIZE_MAX - 1

\* a + b in isize when the sum does not fit: a panic where overflow checks
\* are compiled in (debug), the wrapped sum where they are not (release)
AddOverflows(a, b) == a > 0 /\ b > 0 /\ a > ISIZE_MAX - b
WrappedAdd(a, b) == (a - ISIZE_MAX - 1) + (b - ISIZE_MAX - 1)

\* the clamping of substring's start and of Some(end)
ClampStart(self, start) == IF start < 0 THEN 0 ELSE Min(start, self.length)
ClampEnd(self, end) ==
    IF IsNone(end) THEN self.length
    ELSE IF end[1] < 0 THEN 0 ELSE Min(end[1], self.length)

RECURSIVE substring(_, _, _)
substring(self, start0, end0) ==
    LET start == ClampStart(self, start0)
        end == ClampEnd(self, end0)
    IN
    IF IsSome(self.value) THEN
        IF SliceOk(self.value[1], start, end)
        THEN Text(Slice(self.value[1], start, end))
        ELSE NoText
    ELSE IF IsNone(self.left) \/ IsNone(self.right) THEN NoText
    ELSE
      LET left == self.left[1]
          right == self.right[1]
          left_length == left.length
          left_start == Min(start, left_length)
          left_end == Min(end, left_length)
          right_start == Min(saturating_sub(start, left_length), right.length)
          right_end == Min(saturating_sub(end, left_length), right.length)
      IN  IF left_start # left_end /\ right_start # right_end THEN
              LET l == substring(left, left_start, Some(left_end))
                  r == substring(right, right_start, Some(right_end))
              IN  IF l.ok /\ r.ok THEN Text(l.text \o r.text) ELSE NoText
          ELSE IF left_start # left_end
          THEN substring(left, left_start, Some(left_end))
          ELSE IF right_start # right_end
          THEN substring(right, right_start, Some(right_end))
          ELSE Text(<<>>)

\* overflow_checks: whether the build panics on arithmetic overflow
substr(self, start0, length, overflow_checks) ==
    LET start == IF start0 < 0 THEN Max(self.length + start0, 0) ELSE start0 IN
    IF IsNone(length) THEN substring(self, start, Some(self.length))
    ELSE IF length[1] < 0 THEN substring(self, start, Some(0))
    ELSE IF AddOverflows(start, length[1]) THEN
        IF overflow_checks THEN NoText
        ELSE substring(self, start, Some(WrappedAdd(start, length[1])))
    ELSE substring(self, start, Some(start + length[1]))

\* position + 1 in isize, then substring(position, Some(position + 1))
char_at(self, position, overflow_checks) ==
    IF AddOverflows(position, 1) THEN
        IF overflow_checks THEN NoText
        ELSE substring(self, position, Some(WrappedAdd(position, 1)))
    ELSE substring(self, position, Some(position + 1))

\* ch.chars().next().expect("Invalid position").into(): the code of the first
\* character of the slice, a panic when the slice is empty.  A slice of one
\* byte that is a whole character has that byte as its code.
char_code_at(self, position, overflow_checks) ==
    LET ch == char_at(self, position, overflow_checks) IN
    IF ch.ok /\ Len(ch.text) > 0 THEN Text(ch.text[1]) ELSE NoText

----------------------------------------------------------------------------
(* Inputs *)

\* n single-byte characters, all different, numbered from base + 1
Ascii(n, base) == [i \in 1..n |-> base + i]
\* k two-byte characters: a lead byte followed by a continuation byte
Wide(k, base) == [i \in 1..(2 * k) |-> IF i % 2 = 1 THEN base + i ELSE -(base + i)]

\* the number of mutating calls made after construction
MaxOps == 2
\* queries are made on the ropes reached by at most this many mutating calls
MaxQueryOps == 1
\* the length of a short text
ShortLen == 11

\* the texts a rope is constructed from: empty, short, at the split threshold
\* (the longest leaf), just above it (one split), above twice the threshold
\* (splits of splits), and two-byte characters filling 2, SPLIT_LENGTH,
\* SPLIT_LENGTH + 2 and SPLIT_LENGTH + 4 bytes
InitTexts ==
    { Ascii(0, 0), Ascii(ShortLen, 0), Ascii(SPLIT_LENGTH, 0),
      Ascii(SPLIT_LENGTH + 1, 0), Ascii(2 * SPLIT_LENGTH + 3, 0),
      Wide(1, 0), Wide(JOIN_LENGTH, 0), Wide(JOIN_LENGTH + 1, 0),
      Wide(JOIN_LENGTH + 2, 0) }

\* the texts inserted: empty, one unit, one two-byte character, and a block
\* that makes a leaf of JOIN_LENGTH units or more exceed SPLIT_LENGTH; their
\* units differ from the units of the initial texts
InsertTexts ==
    { Ascii(0, 3 * SPLIT_LENGTH), Ascii(1, 3 * SPLIT_LENGTH),
      Wide(1, 3 * SPLIT_LENGTH),
      Ascii(JOIN_LENGTH + ShortLen, 3 * SPLIT_LENGTH) }

\* the length of the left child, or the middle of a leaf
Mid(r) == IF IsSome(r.left) THEN r.left[1].length ELSE r.length \div 2

NonNegative(S) == { p \in S : p >= 0 }

Positions(r) ==
    NonNegative({0, 1, Mid(r) - 1, Mid(r), r.length, r.length + 1})

RemoveStarts(r) == NonNegative({0, Mid(r) - 1, Mid(r), r.length + 1})
\* Mid \div 10 from 0 shortens a grandchild without unbalancing the root;
\* length - 1 leaves one unit of the right child next to a short left child
RemoveEnds(r) ==
    NonNegative({0, Mid(r) \div 10, Mid(r), Mid(r) + 1, r.length - 1,
                 r.length, r.length + 1})
\* the ranges tried, among them the range a preceding insert has just filled
RemoveRanges(r, last) ==
    (RemoveStarts(r) \X RemoveEnds(r))
    \cup (IF last.name = "insert"
          THEN {<<last.position, last.position + Len(last.text)>>}
          ELSE {})

SignedArgs(r) == {ISIZE_MIN, -3, 0, Mid(r) - 1, r.length + 1, ISIZE_MAX}
OptionalEnds(r) ==
    {None} \cup {Some(e) : e \in {-3, 0, Mid(r), Mid(r) + 1, r.length + 1}}
OptionalLengths(r) ==
    {None} \cup {Some(n) : n \in {-1, 0, Mid(r) + 1, ISIZE_MAX}}

CharPositions(r) ==
    {ISIZE_MIN, -1, 0, Mid(r) - 1, r.length - 1, r.length, ISIZE_MAX}

----------------------------------------------------------------------------
(* The state: the rope, the rope before the last call, the last call, what *)
(* it returned, whether it panicked, and the number of mutating calls.     *)
(* A panic ends the run.  A query takes &self and leaves the rope as it    *)
(* is, so the calls that can follow it are the calls that can follow the   *)
(* state it was made in: a run is followed up to its first query.          *)
(* `before` remembers the call made before the last one and the rope it    *)
(* was made on.                                                            *)
VARIABLES rope, pre, op, ret, panicked, nops, before

vars == <<rope, pre, op, ret, panicked, nops, before>>

\* the state after a mutating call `name` with outcome res
Mutated(name, args, res) ==
    /\ rope' = res.rope
    /\ pre' = rope
    /\ op' = [args EXCEPT !.name = name]
    /\ ret' = None
    /\ panicked' = ~res.ok
    /\ nops' = nops + 1
    /\ before' = [op |-> op, rope |-> pre]

\* the state after a query `name` that returned (or not) the text res
Queried(name, args, res) ==
    /\ rope' = rope
    /\ pre' = rope
    /\ op' = [args EXCEPT !.name = name]
    /\ ret' = IF res.ok THEN Some(res.text) ELSE None
    /\ panicked' = ~res.ok
    /\ nops' = nops
    /\ before' = [op |-> op, rope |-> pre]

Call == [name |-> "", position |-> 0, text |-> <<>>, start |-> 0,
         end |-> None, length |-> None]

Init ==
    \E T \in InitTexts :
        LET res == new(T) IN
        /\ rope = res.rope
        /\ pre = res.rope
        /\ op = [Call EXCEPT !.name = "new", !.text = T]
        /\ ret = None
        /\ panicked = ~res.ok
        /\ nops = 0
        /\ before = [op |-> Call, rope |-> res.rope]

\* the last call returned and was not a query
Running == ~panicked /\ IsNone(ret)

Insert ==
    /\ Running
    /\ nops < MaxOps
    /\ \E p \in Positions(rope), S \in InsertTexts :
        Mutated("insert", [Call EXCEPT !.position = p, !.text = S],
                insert(rope, p, S))

Remove ==
    /\ Running
    /\ nops < MaxOps
    /\ \E range \in RemoveRanges(rope, op) :
      LET s == range[1]
          e == range[2]
      IN
        Mutated("remove", [Call EXCEPT !.start = s, !.end = Some(e)],
                remove(rope, s, e))

Rebuild ==
    /\ Running
    /\ nops < MaxOps
    /\ Mutated("rebuild", Call, rebuild(rope))

Rebalance ==
    /\ Running
    /\ nops < MaxOps
    /\ Mutated("rebalance", Call, rebalance(rope))

Substring ==
    /\ Running
    /\ nops <= MaxQueryOps
    /\ \E s \in SignedArgs(rope), e \in OptionalEnds(rope) :
        Queried("substring", [Call EXCEPT !.start = s, !.end = e],
                substring(rope, s, e))

Substr ==
    /\ Running
    /\ nops <= MaxQueryOps
    /\ \E s \in SignedArgs(rope), n \in OptionalLengths(rope),
          overflow_checks \in BOOLEAN :
        Queried("substr", [Call EXCEPT !.start = s, !.length = n],
                substr(rope, s, n, overflow_checks))

CharAt ==
    /\ Running
    /\ nops <= MaxQueryOps
    /\ \E p \in CharPositions(rope), overflow_checks \in BOOLEAN :
        Queried("char_at", [Call EXCEPT !.start = p],
                char_at(rope, p, overflow_checks))

CharCodeAt ==
    /\ Running
    /\ nops <= MaxQueryOps
    /\ \E p \in CharPositions(rope), overflow_checks \in BOOLEAN :
        Queried("char_code_at", [Call EXCEPT !.start = p],
                char_code_at(rope, p, overflow_checks))

Next ==
    \/ Insert
    \/ Remove
    \/ Rebuild
    \/ Rebalance
    \/ Substring
    \/ Substr
    \/ CharAt
    \/ CharCodeAt

Spec == Init /\ [][Next]_vars

----------------------------------------------------------------------------
(* Properties *)

\* the flattened text of the rope before the last call
Old == to_string(pre)

\* bytes [a, b) of a text, 0-based, as plain units
Units(t, a, b) == SubSeq(t, a + 1, b)

\* every index of the text is a char boundary (single-byte characters only)
SingleByte(t) == \A i \in 1..Len(t) : t[i] >= 0

RECURSIVE LengthInvariant(_)
\* every node's length is the size of its subtree's text; an internal node's
\* length is the sum of its children's lengths
LengthInvariant(n) ==
    IF IsSome(n.value) THEN n.length = Len(n.value[1])
    ELSE /\ IsSome(n.left)
         /\ IsSome(n.right)
         /\ n.length = n.left[1].length + n.right[1].length
         /\ n.length = Len(to_string(n))
         /\ LengthInvariant(n.left[1])
         /\ LengthInvariant(n.right[1])

\* C1: after construction and after every insert, remove, rebuild and
\* rebalance that returns, every node's length equals the number of units of
\* its subtree's flattened text, and every internal node's length is the sum
\* of its children's lengths.
C1_LengthInvariant == ~panicked => LengthInvariant(rope)

\* a remove that returned, on an internal root, took units from both children
C1_Witness ==
    /\ ~panicked
    /\ op.name = "remove"
    /\ IsNone(pre.value)
    /\ IsNone(rope.value)
    /\ rope.left[1].length < pre.left[1].length
    /\ rope.right[1].length < pre.right[1].length

\* C2: insert(p, S) with 0 <= p <= length completes and leaves the flattened
\* text old[0..p) ++ S ++ old[p..).
C2_InsertSplices ==
    (op.name = "insert" /\ op.position <= pre.length) =>
        /\ ~panicked
        /\ to_string(rope) = Units(Old, 0, op.position) \o op.text
                             \o Units(Old, op.position, Len(Old))

\* C3: remove(start, end) with 0 <= start <= end <= length completes and
\* leaves the flattened text old[0..start) ++ old[end..).
C3_RemoveCuts ==
    (op.name = "remove" /\ op.start <= op.end[1] /\ op.end[1] <= pre.length) =>
        /\ ~panicked
        /\ to_string(rope) = Units(Old, 0, op.start)
                             \o Units(Old, op.end[1], Len(Old))

\* the last call removed exactly the range that the call before it inserted
RemovedTheInsert ==
    /\ op.name = "remove"
    /\ before.op.name = "insert"
    /\ op.start = before.op.position
    /\ op.end = Some(before.op.position + Len(before.op.text))

\* C4: insert(p, S) at a valid p followed by remove(p, p + len(S)) yields a
\* rope with the flattened text and the root length it had before the insert.
C4_InsertThenRemoveRestores ==
    /\ (op.name = "insert" /\ op.position <= pre.length) => ~panicked
    /\ RemovedTheInsert =>
          /\ ~panicked
          /\ to_string(rope) = to_string(before.rope)
          /\ rope.length = before.rope.length

\* C5: construct(T) completes and flatten(construct(T)) = T, for every text T.
C5_ConstructRoundTrip ==
    op.name = "new" => (~panicked /\ to_string(rope) = op.text)

\* C6: insert panics exactly when p > length; remove panics exactly when
\* start > length or end > length or start > end; and a call that panics
\* leaves every node of the rope as it was.
C6_FatalExactlyOnPrecondition ==
    /\ op.name = "insert" => (panicked <=> op.position > pre.length)
    /\ op.name = "remove" =>
          (panicked <=> \/ op.start > pre.length
                        \/ op.end[1] > pre.length
                        \/ op.start > op.end[1])
    /\ (panicked /\ op.name \in {"insert", "remove"}) => rope = pre

\* clamp(x) = min(max(x, 0), length), an omitted end meaning length
Clamp(x, n) == Min(Max(x, 0), n)
ClampOpt(e, n) == IF IsNone(e) THEN n ELSE Clamp(e[1], n)

\* C7: when clamp(start) <= clamp(end), substring(start, end) returns the
\* units of the flattened text at [clamp(start), clamp(end)) and leaves the
\* rope unchanged.
C7_SubstringReturnsClampedRange ==
    (/\ op.name = "substring"
     /\ Clamp(op.start, pre.length) <= ClampOpt(op.end, pre.length)) =>
        /\ ~panicked
        /\ ret = Some(Units(Old, Clamp(op.start, pre.length),
                            ClampOpt(op.end, pre.length)))
        /\ rope = pre

\* C8: substring never fails, whatever the signed start and optional signed
\* end, inverted ranges included.
C8_SubstringNeverFails ==
    op.name = "substring" => (~panicked /\ IsSome(ret))

\* the start and the end that C9 gives to substr(start, n) on n units
SubstrStart(start, n) ==
    IF start >= 0 THEN Min(start, n) ELSE Max(n + start, 0)
SubstrEnd(s, len, n) ==
    IF IsNone(len) THEN n
    ELSE IF len[1] >= n - s THEN n
    ELSE s + len[1]

\* C9: for an omitted or non-negative length n, substr(start, n) returns the
\* units at [s, min(s + n, length)), s being start clamped to length when
\* start >= 0 and max(length + start, 0) when start < 0.
C9_SubstrReturnsRange ==
    (/\ op.name = "substr"
     /\ (IsNone(op.length) \/ op.length[1] >= 0)) =>
        LET s == SubstrStart(op.start, pre.length) IN
        /\ ~panicked
        /\ ret = Some(Units(Old, s, SubstrEnd(s, op.length, pre.length)))

\* C10: substr(start, n) with a negative length n returns the empty text and
\* does not fail.
C10_SubstrNegativeLengthIsEmpty ==
    (/\ op.name = "substr"
     /\ IsSome(op.length)
     /\ op.length[1] < 0) =>
        (~panicked /\ ret = Some(<<>>))

\* the position of the last char_at / char_code_at is inside the rope
InRange == 0 <= op.start /\ op.start < pre.length

\* C11: charAt(p) never fails and returns the unit at p when 0 <= p < length
\* and the empty text otherwise; charCodeAt(p) returns the code of that unit
\* when 0 <= p < length and panics exactly when p is outside [0, length).
C11_CharAccessors ==
    /\ op.name = "char_at" =>
          /\ ~panicked
          /\ ret = Some(IF InRange THEN <<Old[op.start + 1]>> ELSE <<>>)
    /\ op.name = "char_code_at" =>
          /\ panicked <=> ~InRange
          /\ ~panicked => ret = Some(Old[op.start + 1])

RECURSIVE LeavesWithinSplit(_)
\* no leaf of the subtree holds more than SPLIT_LENGTH units
LeavesWithinSplit(n) ==
    IF IsSome(n.value) THEN Len(n.value[1]) <= SPLIT_LENGTH
    ELSE /\ IsSome(n.left)
         /\ IsSome(n.right)
         /\ LeavesWithinSplit(n.left[1])
         /\ LeavesWithinSplit(n.right[1])

\* C12: after construct and after every insert, remove, rebuild and rebalance
\* that returns, no leaf holds more than SPLIT_LENGTH units; construct(T)
\* returns a leaf root exactly when len(T) <= SPLIT_LENGTH.
C12_LeavesWithinSplitLength ==
    ~panicked =>
        /\ LeavesWithinSplit(rope)
        /\ op.name = "new" =>
              (IsSome(rope.value) <=> Len(op.text) <= SPLIT_LENGTH)

\* an insert into a leaf root returned and left an internal root
C12_Witness ==
    /\ ~panicked
    /\ op.name = "insert"
    /\ IsSome(pre.value)
    /\ IsNone(rope.value)
    /\ rope.length > SPLIT_LENGTH

RECURSIVE InternalsAtLeastJoin(_)
\* no internal node of the subtree has a length below JOIN_LENGTH
InternalsAtLeastJoin(n) ==
    IF IsSome(n.value) THEN TRUE
    ELSE /\ n.length >= JOIN_LENGTH
         /\ IsSome(n.left)
         /\ IsSome(n.right)
         /\ InternalsAtLeastJoin(n.left[1])
         /\ InternalsAtLeastJoin(n.right[1])

\* C13: after construct and after every insert, remove, rebuild and rebalance
\* that returns, no internal node has a length below JOIN_LENGTH; a rope
\* whose length a remove has brought below JOIN_LENGTH is a single leaf.
C13_InternalsAtLeastJoinLength ==
    ~panicked =>
        /\ InternalsAtLeastJoin(rope)
        /\ rope.length < JOIN_LENGTH => IsSome(rope.value)

\* a remove on an internal root returned with fewer than JOIN_LENGTH units
\* left, but more than half of that, and the root is a leaf
C13_Witness ==
    /\ ~panicked
    /\ op.name = "remove"
    /\ IsNone(pre.value)
    /\ IsSome(rope.value)
    /\ rope.length < JOIN_LENGTH
    /\ 2 * rope.length >= JOIN_LENGTH

RECURSIVE Balanced(_)
\* every internal node of the subtree has
\* max(left.length, right.length) <= 1.2 * min(left.length, right.length)
Balanced(n) ==
    IF IsSome(n.value) THEN TRUE
    ELSE /\ IsSome(n.left)
         /\ IsSome(n.right)
         /\ LET l == n.left[1].length
                r == n.right[1].length
            IN  /\ RATIO_DEN * Max(l, r) <= RATIO_NUM * Min(l, r)
                /\ l > 0
                /\ r > 0
         /\ Balanced(n.left[1])
         /\ Balanced(n.right[1])

\* C14: after rebalance() returns on the root, every internal node of the
\* tree has max(left.length, right.length) <= 1.2 * min(left.length,
\* right.length), and so no internal node has an empty child.
C14_RebalanceBound ==
    (op.name = "rebalance" /\ ~panicked) => Balanced(rope)

\* a rebalance returned that kept a balanced root and rebuilt below it
C14_Witness ==
    /\ op.name = "rebalance"
    /\ ~panicked
    /\ ~Balanced(pre)
    /\ IsNone(rope.value)
    /\ rope # pre
    /\ rope.left[1].length = pre.left[1].length

\* C15: rebuild() and rebalance() complete without failing on every reachable
\* rope, an internal node with a child of length 0 included.
C15_RestructuringNeverFails ==
    op.name \in {"rebuild", "rebalance"} => ~panicked

\* the text an insert within bounds is to leave
Spliced ==
    Units(Old, 0, op.position) \o op.text \o Units(Old, op.position, Len(Old))

\* the text a remove within bounds is to leave
Cut == Units(Old, 0, op.start) \o Units(Old, op.end[1], Len(Old))

\* a leaf holding the text, before adjust has looked at it
Leaf(t) == [value |-> Some(t), left |-> None, right |-> None, length |-> Len(t)]

\* C16: restructuring never changes content. rebuild() and rebalance() leave
\* the flattened text and the length of the rope unchanged; the splits and
\* joins that adjust performs at the end of new, insert and remove leave the
\* text and the length that the operation produced (the constructed, spliced
\* or cut text); adjust applied to a leaf of a returned rope's text keeps that text.
C16_RestructuringKeepsContent ==
    /\ op.name \in {"rebuild", "rebalance"} =>
            /\ to_string(rope) = Old
            /\ rope.length = pre.length
    /\ (op.name = "new" /\ ~panicked) =>
            /\ to_string(rope) = op.text
            /\ rope.length = Len(op.text)
    /\ (op.name = "insert" /\ ~panicked) =>
            /\ to_string(rope) = Spliced
            /\ rope.length = Len(Spliced)
    /\ (op.name = "remove" /\ ~panicked /\ op.start <= op.end[1]
            /\ op.end[1] <= pre.length) =>
            /\ to_string(rope) = Cut
            /\ rope.length = Len(Cut)
    /\ LET a == adjust(Leaf(to_string(rope))) IN
            (~panicked /\ a.ok) =>
                    /\ to_string(a.rope) = to_string(rope)
                    /\ a.rope.length = rope.length

\* a rebuild turned one tree into a differently shaped tree of the same text
C16_Witness ==
    /\ op.name = "rebuild"
    /\ ~panicked
    /\ IsNone(pre.value)
    /\ IsNone(rope.value)
    /\ rope # pre
    /\ to_string(rope) = Old

RECURSIVE ExactlyOneMode(_)
\* every node of the subtree is a leaf (text present, no children) or an
\* internal node (text absent, both children present)
ExactlyOneMode(n) ==
    \/ IsSome(n.value) /\ IsNone(n.left) /\ IsNone(n.right)
    \/ /\ IsNone(n.value)
       /\ IsSome(n.left)
       /\ IsSome(n.right)
       /\ ExactlyOneMode(n.left[1])
       /\ ExactlyOneMode(n.right[1])

\* C17: in every state reached by calls that returned, every node is in
\* exactly one mode, so that no "Non-leaf node must have left/right child"
\* expectation fails on the rope.
C17_ExactlyOneMode ==
    ~panicked =>
        /\ ExactlyOneMode(rope)
        /\ ~fmt_panics(rope)

\* the rope went from leaf to internal by an insert that split it, and back
\* to leaf by a remove that joined it
C17_Witness ==
    /\ op.name = "remove"
    /\ ~panicked
    /\ before.op.name = "insert"
    /\ IsSome(before.rope.value)
    /\ IsNone(pre.value)
    /\ IsSome(rope.value)
    /\ IsNone(rope.left)
    /\ rope.length > 0

RECURSIVE RoutedToOneSide(_, _, _)
\* node b is node a after insert(p, S): at every internal node on the way
\* down, the node is still internal, the subtree the position does not route
\* to (the left one for p >= left.length, the right one for p < left.length)
\* is the same in text, length and structure, and the other one is routed in
\* the same way with the position made relative to it
RoutedToOneSide(a, b, p) ==
    IF IsSome(a.value) THEN TRUE
    ELSE /\ IsNone(b.value)
         /\ IsSome(b.left)
         /\ IsSome(b.right)
         /\ IF p >= a.left[1].length
            THEN /\ b.left = a.left
                 /\ RoutedToOneSide(a.right[1], b.right[1],
                                    p - a.left[1].length)
            ELSE /\ b.right = a.right
                 /\ RoutedToOneSide(a.left[1], b.left[1], p)

\* C18: at an internal node insert(p, S) with p >= left.length, the boundary
\* p = left.length included, changes the right subtree only and leaves the
\* left subtree as it was; with p < left.length it changes the left subtree
\* only and leaves the right subtree as it was.
C18_InsertRoutesToOneSide ==
    op.name = "insert" => RoutedToOneSide(pre, rope, op.position)

\* a text was inserted at the boundary of an internal root and went right
C18_Witness ==
    /\ op.name = "insert"
    /\ ~panicked
    /\ IsNone(pre.value)
    /\ op.position = pre.left[1].length
    /\ Len(op.text) > 0
    /\ rope.left = pre.left
    /\ rope.right # pre.right
    /\ to_string(rope.right[1]) = op.text \o to_string(pre.right[1])

RECURSIVE SplitAtMidpoints(_)
\* a leaf of at most SPLIT_LENGTH units, or an internal node of more than
\* SPLIT_LENGTH units whose left child has length \div 2 units, whose right
\* child has the rest (so the two differ by at most 1), and whose children
\* are split in the same way
SplitAtMidpoints(n) ==
    IF IsSome(n.value) THEN n.length <= SPLIT_LENGTH
    ELSE /\ n.length > SPLIT_LENGTH
         /\ n.left[1].length = n.length \div 2
         /\ n.right[1].length = n.length - n.length \div 2
         /\ n.right[1].length - n.left[1].length \in {0, 1}
         /\ SplitAtMidpoints(n.left[1])
         /\ SplitAtMidpoints(n.right[1])

\* C19: rebuild() on a leaf changes nothing; rebuild() on an internal node
\* fails exactly when construct(flatten(node)) fails and otherwise leaves the
\* tree that construct(flatten(node)) builds: one leaf when the length is at
\* most SPLIT_LENGTH, else a tree split recursively at the integer midpoints.
C19_RebuildIsConstructOfFlatten ==
    op.name = "rebuild" =>
        /\ IsSome(pre.value) => (~panicked /\ rope = pre)
        /\ panicked <=> ~new(Old).ok
        /\ ~panicked =>
              /\ rope = new(Old).rope
              /\ IsSome(rope.value) <=> pre.length <= SPLIT_LENGTH
              /\ SplitAtMidpoints(rope)

\* a rebuild moved the split of an internal root to the midpoint
C19_Witness ==
    /\ op.name = "rebuild"
    /\ ~panicked
    /\ IsNone(pre.value)
    /\ pre.left[1].length # pre.length \div 2
    /\ IsNone(rope.value)
    /\ rope.left[1].length = rope.length \div 2

RECURSIVE Stable(_)
\* adjust applied to the node, and to every node below it, returns and
\* changes nothing
Stable(n) ==
    /\ adjust(n) = Ok(n)
    /\ IsNone(n.value) => Stable(n.left[1]) /\ Stable(n.right[1])

RECURSIVE ChildrenShorter(_)
\* every internal node is longer than each of its children: the splitting
\* that built the subtree went down in length at every step
ChildrenShorter(n) ==
    IsNone(n.value) =>
        /\ n.left[1].length < n.length
        /\ n.right[1].length < n.length
        /\ ChildrenShorter(n.left[1])
        /\ ChildrenShorter(n.right[1])

\* C20: a second adjust right after the adjust that ended a call changes
\* nothing, at the root and at every node below it (a node just split is not
\* joined back, a node just joined is not split again); the same holds for
\* two passes over a leaf of the rope's whole text; and the recursive
\* splitting of construct and rebuild goes down in length at every step.
C20_AdjustIsStable ==
    ~panicked =>
        /\ Stable(rope)
        /\ LET first == adjust(Leaf(to_string(rope))) IN
               first.ok => adjust(first.rope) = first
        /\ op.name \in {"new", "rebuild"} => ChildrenShorter(rope)

\* an insert made a leaf exceed SPLIT_LENGTH, adjust split it into leaves
\* that lie between the two thresholds, and a second adjust leaves it split
C20_Witness ==
    /\ op.name = "insert"
    /\ ~panicked
    /\ IsSome(pre.value)
    /\ IsNone(rope.value)
    /\ IsSome(rope.left[1].value)
    /\ rope.left[1].length >= JOIN_LENGTH
    /\ rope.left[1].length <= SPLIT_LENGTH
    /\ adjust(rope) = Ok(rope)
====
